---- MODULE Spec2Model ----
(***************************************************************************)
(* Model of the signaler desktop supervisor (app/src-tauri/src/main.rs):   *)
(* the guarded child slot, start_run / cancel_run / list_history, the      *)
(* output-reader task spawned per run, and the run history store.          *)
(* And of the signaler launcher (launcher/src/main.rs): manifest           *)
(* resolution, entry resolution and the cache layout report.               *)
(***************************************************************************)
EXTENDS Integers, Sequences, FiniteSets, TLC

(* ------------------------------ bounds --------------------------------- *)
\* concurrent command invocations (tauri runs async commands on a pool)
NumThreads == 2
\* start_run invocations that pass the slot check, per behaviour
MaxStarts == 3
\* output events the engine processes write, per behaviour
MaxLines == 1
\* the same, where the claims are about the event stream
MaxStreamLines == 2
\* start_run invocations where the claims are about the event stream
MaxStreamStarts == 1
\* start_run invocations where the claims are about the history store
MaxHistoryStarts == 2
\* start_run invocations where the claim is about progress
MaxLiveStarts == 2
\* start_run invocations where the claim is about the cached history list
MaxCacheStarts == 1
\* start_run invocations where the claims are about the run workspace
MaxWorkspaceStarts == 2
\* injected I/O failures (write, spawn, kill), per behaviour
MaxFaults == 1
\* largest millisecond value the system clock is observed at
MaxClock == 1

(* -------------------------- program constants -------------------------- *)
\* main.rs:239  if guard.len() > 100 { guard.truncate(100) }
HistoryCap == 100

None == 0
Threads == 1..NumThreads
Modes == {"folder", "url"}
Targets == {"T"}

(* ------------------------------ text ----------------------------------- *)
\* A line is a sequence of one-character strings.
IsWs(c) == c \in {" ", "\t", "\n", "\r"}

RECURSIVE TrimStart(_)
TrimStart(s) ==
  IF s = <<>> THEN <<>>
  ELSE IF IsWs(Head(s)) THEN TrimStart(Tail(s)) ELSE s

RECURSIVE TrimEnd(_)
TrimEnd(s) ==
  IF s = <<>> THEN <<>>
  ELSE IF IsWs(s[Len(s)]) THEN TrimEnd(SubSeq(s, 1, Len(s) - 1)) ELSE s

\* str::trim
Trim(s) == TrimEnd(TrimStart(s))

(* ------------------------------ JSON ----------------------------------- *)
\* serde_json::Value, every variant in one record shape:
\*   k     "null" | "bool" | "num" | "str" | "arr" | "obj"
\*   n     the number (k = "num") or 0/1 (k = "bool")
\*   s     the characters (k = "str")
\*   items the elements (k = "arr")
\*   mem   the members, as a set of [key, val] (k = "obj": a keyed map)
JV(k, n, s, items, mem) == [k |-> k, n |-> n, s |-> s, items |-> items, mem |-> mem]
JNull == JV("null", 0, <<>>, <<>>, {})
JBool(b) == JV("bool", IF b THEN 1 ELSE 0, <<>>, <<>>, {})
JNum(n) == JV("num", n, <<>>, <<>>, {})
\* Value::String
JStr(s) == JV("str", 0, s, <<>>, {})
JArr(items) == JV("arr", 0, <<>>, items, {})
\* Value::Object
JObj(mem) == JV("obj", 0, <<>>, <<>>, mem)

Digits == <<"0", "1", "2", "3", "4", "5", "6", "7", "8", "9">>
IsDigit(c) == \E d \in 1..10 : Digits[d] = c
DigitVal(c) == (CHOOSE d \in 1..10 : Digits[d] = c) - 1

PFail == [ok |-> FALSE, val |-> JNull, next |-> 0]
POk(v, next) == [ok |-> TRUE, val |-> v, next |-> next]

RECURSIVE SkipWs(_, _)
SkipWs(s, i) ==
  IF i <= Len(s) /\ IsWs(s[i]) THEN SkipWs(s, i + 1) ELSE i

\* the literal lit starts at s[i]
MatchAt(s, i, lit) ==
  /\ i + Len(lit) - 1 <= Len(s)
  /\ \A j \in 1..Len(lit) : s[i + j - 1] = lit[j]

RECURSIVE ParseDigits(_, _, _)
ParseDigits(s, i, acc) ==
  IF i <= Len(s) /\ IsDigit(s[i])
  THEN ParseDigits(s, i + 1, acc * 10 + DigitVal(s[i]))
  ELSE POk(JNum(acc), i)

\* an unsigned integer; a leading zero followed by a digit is an error
ParseNumber(s, i) ==
  IF s[i] = "0"
  THEN IF i + 1 <= Len(s) /\ IsDigit(s[i + 1]) THEN PFail ELSE POk(JNum(0), i + 1)
  ELSE ParseDigits(s, i, 0)

RECURSIVE ParseChars(_, _, _)
ParseChars(s, i, acc) ==
  IF i > Len(s) THEN PFail
  ELSE IF s[i] = "\"" THEN POk(JStr(acc), i + 1)
  ELSE IF s[i] \in {"\\", "\n", "\r", "\t"} THEN PFail
  ELSE ParseChars(s, i + 1, Append(acc, s[i]))

\* a string without escapes, s[i] being the opening quote
ParseString(s, i) == ParseChars(s, i + 1, <<>>)

\* Map::insert: a later member replaces an earlier one of the same key
PutMember(mem, key, val) ==
  {m \in mem : m.key # key} \cup {[key |-> key, val |-> val]}

RECURSIVE ParseValue(_, _)
RECURSIVE ParseElems(_, _, _)
RECURSIVE ParseMembers(_, _, _)

ParseElems(s, i, acc) ==
  LET v == ParseValue(s, i) IN
  IF ~v.ok THEN PFail
  ELSE LET m == SkipWs(s, v.next) IN
       IF m > Len(s) THEN PFail
       ELSE IF s[m] = "," THEN ParseElems(s, m + 1, Append(acc, v.val))
       ELSE IF s[m] = "]" THEN POk(JArr(Append(acc, v.val)), m + 1)
       ELSE PFail

ParseMembers(s, i, acc) ==
  LET k == SkipWs(s, i) IN
  IF k > Len(s) \/ s[k] # "\"" THEN PFail
  ELSE LET key == ParseString(s, k) IN
       IF ~key.ok THEN PFail
       ELSE LET c == SkipWs(s, key.next) IN
            IF c > Len(s) \/ s[c] # ":" THEN PFail
            ELSE LET v == ParseValue(s, c + 1) IN
                 IF ~v.ok THEN PFail
                 ELSE LET m == SkipWs(s, v.next)
                          acc2 == PutMember(acc, key.val.s, v.val) IN
                      IF m > Len(s) THEN PFail
                      ELSE IF s[m] = "," THEN ParseMembers(s, m + 1, acc2)
                      ELSE IF s[m] = "}" THEN POk(JObj(acc2), m + 1)
                      ELSE PFail

ParseValue(s, i) ==
  LET j == SkipWs(s, i) IN
  IF j > Len(s) THEN PFail
  ELSE IF s[j] = "\"" THEN ParseString(s, j)
  ELSE IF s[j] = "[" THEN
         LET k == SkipWs(s, j + 1) IN
         IF k <= Len(s) /\ s[k] = "]" THEN POk(JArr(<<>>), k + 1)
         ELSE ParseElems(s, j + 1, <<>>)
  ELSE IF s[j] = "{" THEN
         LET k == SkipWs(s, j + 1) IN
         IF k <= Len(s) /\ s[k] = "}" THEN POk(JObj({}), k + 1)
         ELSE ParseMembers(s, j + 1, {})
  ELSE IF MatchAt(s, j, <<"t", "r", "u", "e">>) THEN POk(JBool(TRUE), j + 4)
  ELSE IF MatchAt(s, j, <<"f", "a", "l", "s", "e">>) THEN POk(JBool(FALSE), j + 5)
  ELSE IF MatchAt(s, j, <<"n", "u", "l", "l">>) THEN POk(JNull, j + 4)
  ELSE IF IsDigit(s[j]) THEN ParseNumber(s, j)
  ELSE PFail

\* serde_json::from_str::<Value>: one value, then only whitespace
FromStr(s) ==
  LET v == ParseValue(s, 1) IN
  IF v.ok /\ SkipWs(s, v.next) > Len(s) THEN v ELSE PFail

(* ------------------------------ state ---------------------------------- *)
VARIABLES
  now,            \* the system clock, in ms, as last observed
  child,          \* SharedChild: None or the handle (run number) in the slot
  childLock,      \* holder of the SharedChild mutex, or None
  histLock,       \* holder of the SharedHistory mutex, or None
  lastOutputDir,  \* SharedLastOutputDir
  history,        \* SharedHistory: Vec<HistoryEntry>
  disk,           \* <app_data_dir>/history.json
  configs,        \* the apex.config.json files written, [path, content]
  procs,          \* the engine processes spawned, with channel and reader task
  th,             \* the command invocations in progress, one per pool thread
  sinkUp,         \* the event sink (webview) accepts emissions
  starts,         \* start_run invocations so far
  lastRecorded,   \* the entry most recently handed to persist_history_entry
  lastRet,        \* the result the step just taken returned to its caller, if any
  faults,         \* I/O failures so far
  listed,         \* list_history has returned in this process
  launcher        \* the launcher process: its file system, position and results

vars == <<now, child, childLock, histLock, lastOutputDir, history, disk,
          configs, procs, th, sinkUp, starts, lastRecorded, lastRet,
          faults, listed, launcher>>

(* --------------------------- ids and paths ----------------------------- *)
\* format!("run-{}", ms)
new_id(ms) == [pre |-> "run-", ms |-> ms]
\* format!("{}", ms)
now_iso(ms) == [iso |-> ms]
\* base.join("runs").join(new_id())
resolve_default_output_dir(ms) == [sub |-> "runs", id |-> new_id(ms)]
NoDir == [sub |-> "", id |-> [pre |-> "", ms |-> 0]]
\* out_path.join("apex.config.json")
ConfigPath(dir) == [dir |-> dir, file |-> "apex.config.json"]
NoPath == [dir |-> NoDir, file |-> ""]

DEFAULT_DEVICES == <<"mobile", "desktop">>

\* the ApexConfig document write_url_mode_config serializes (camelCase keys)
ApexConfigDoc(base_url) ==
  [baseUrl |-> base_url,
   pages |-> <<[path |-> "/", label |-> "home", devices |-> DEFAULT_DEVICES]>>,
   warmUp |-> FALSE, incremental |-> FALSE, parallel |-> 1,
   throttlingMethod |-> "simulate", cpuSlowdownMultiplier |-> 4]

(* ------------------------------ history -------------------------------- *)
HistoryEntry(id, created_at, mode, target, output_dir) ==
  [id |-> id, created_at |-> created_at, mode |-> mode, target |-> target,
   output_dir |-> output_dir]
NoEntry == HistoryEntry(new_id(0), now_iso(0), "", "", NoDir)

\* #[serde(rename_all = "camelCase")] on HistoryEntry, serializing
EntryToJson(e) ==
  [id |-> e.id, createdAt |-> e.created_at, mode |-> e.mode, target |-> e.target,
   outputDir |-> e.output_dir]
\* and deserializing
EntryFromJson(j) ==
  HistoryEntry(j.id, j.createdAt, j.mode, j.target, j.outputDir)

\* (mutant) the file is written without the entry just inserted
SerializeHistory_stale(h) ==
  [kind |-> "doc", doc |-> [i \in 1..(Len(h) - 1) |-> EntryToJson(h[i + 1])]]

MissingFile == [kind |-> "missing", doc |-> <<>>]
CorruptFile == [kind |-> "corrupt", doc |-> <<>>]
\* serde_json::to_string_pretty(&*guard) written to history.json
SerializeHistory(h) == [kind |-> "doc", doc |-> [i \in 1..Len(h) |-> EntryToJson(h[i])]]

\* load_history: None (here <<>> after unwrap_or_default) on a read or parse error
load_history(file) ==
  IF file.kind = "doc"
  THEN [ok |-> TRUE, list |-> [i \in 1..Len(file.doc) |-> EntryFromJson(file.doc[i])]]
  ELSE [ok |-> FALSE, list |-> <<>>]

\* guard.insert(0, entry)
InsertEntry(h, e) == <<e>> \o h
\* (mutant) the list is never truncated
TruncateHistory_never(h) == h

\* if guard.len() > 100 { guard.truncate(100) }
TruncateHistory(h) == IF Len(h) > HistoryCap THEN SubSeq(h, 1, HistoryCap) ELSE h

\* a history.json left by an earlier process: n entries, newest first
OldEntry(i) ==
  HistoryEntry(new_id(0 - i), now_iso(0 - i), "folder", "T",
               resolve_default_output_dir(0 - i))
OldHistory(n) == [i \in 1..n |-> OldEntry(i)]

(* ----------------------------- processes ------------------------------- *)
\* CommandEvent
Ev(type, line) == [type |-> type, line |-> line]
Terminated == Ev("Terminated", <<>>)

\* the event the reader emits on CommandEvent::Terminated
LauncherTerminated ==
  JObj({[key |-> <<"t", "y", "p", "e">>,
         val |-> JStr(<<"l", "a", "u", "n", "c", "h", "e", "r", "_",
                        "t", "e", "r", "m", "i", "n", "a", "t", "e", "d">>)]})

\* a spawned engine process, its event channel (sent, read up to pos) and the
\* reader task: rd is "recv" (in the loop), "clear" (after it) or "done"
NewProc(args) ==
  [alive |-> TRUE, args |-> args, sent |-> <<>>, pos |-> 0, rd |-> "recv",
   emitted |-> <<>>, clears |-> 0]

Runs == 1..Len(procs)

\* app_clone.emit("engine_event", payload): best effort
Emit(log, payload, src) == Append(log, [payload |-> payload, src |-> src, ok |-> sinkUp])

(* ------------------------------ threads -------------------------------- *)
\* Result<T, String> as the caller of thread t receives it
NoRet == [t |-> 0, op |-> "", err |-> "", out |-> NoDir, list |-> <<>>]
Ret(t, op, err, out, list) == [t |-> t, op |-> op, err |-> err, out |-> out, list |-> list]
IdleThread ==
  [pc |-> "idle", mode |-> "", value |-> "", out |-> NoDir, args |-> <<>>,
   loaded |-> <<>>]

\* no launcher process is looked at
NoLauncher == [pc |-> "none"]

\* the state after main() has built the app, over a given history.json
InitOver(files) ==
  /\ now = 0
  /\ child = None
  /\ childLock = None
  /\ histLock = None
  /\ lastOutputDir = NoDir
  /\ history = <<>>
  /\ disk \in files
  /\ configs = {}
  /\ procs = <<>>
  /\ th = [t \in Threads |-> IdleThread]
  /\ sinkUp = TRUE
  /\ starts = 0
  /\ lastRecorded = NoEntry
  /\ lastRet = NoRet
  /\ faults = 0
  /\ listed = FALSE
  /\ launcher = NoLauncher

(* ------------------------------ start_run ------------------------------ *)
\* one element of the argument vector: a literal, or a path made into a string
ArgS(str) == [s |-> str, path |-> NoPath]
ArgP(path) == [s |-> "", path |-> path]
DirPath(dir) == [dir |-> dir, file |-> ""]

\* (mutant) --root and its value come before the separator
FolderArgs_rootFirst(out, value) ==
  <<ArgS("run"), ArgS("folder"), ArgS("--engine-json"), ArgS("--output-dir"),
    ArgP(DirPath(out)), ArgS("--root"), ArgS(value), ArgS("--")>>

\* (mutant) the engine is pointed at the config file instead of the directory
UrlArgs_outputIsConfig(out, config_path) ==
  <<ArgS("run"), ArgS("audit"), ArgS("--engine-json"), ArgS("--output-dir"),
    ArgP(config_path), ArgS("--"), ArgS("--config"), ArgP(config_path)>>

\* main.rs:87-95
FolderArgs(out, value) ==
  <<ArgS("run"), ArgS("folder"), ArgS("--engine-json"), ArgS("--output-dir"),
    ArgP(DirPath(out)), ArgS("--"), ArgS("--root"), ArgS(value)>>
\* main.rs:87, 98-104
UrlArgs(out, config_path) ==
  <<ArgS("run"), ArgS("audit"), ArgS("--engine-json"), ArgS("--output-dir"),
    ArgP(DirPath(out)), ArgS("--"), ArgS("--config"), ArgP(config_path)>>

\* the outcomes of an I/O call: "ok", or an injected failure
Outcomes(errs) == IF faults < MaxFaults THEN {"ok"} \cup errs ELSE {"ok"}
Fault(res) == faults' = IF res = "ok" THEN faults ELSE faults + 1

\* (mutant) a guard is leaked: its lock stays taken
DropGuard_leaked(lock) == lock

\* a MutexGuard goes out of scope: the lock is free
DropGuard(lock) == None

\* the function returns: every guard it holds is dropped
Return(t, op, err, out, list) ==
  /\ th' = [th EXCEPT ![t] = IdleThread]
  /\ lastRet' = Ret(t, op, err, out, list)

\* (mutant) the slot check never finds a run in progress
SlotOccupied_never(c) == FALSE

\* main.rs:75  child_guard.is_some()
SlotOccupied(c) == c # None

\* main.rs:74-79: take the slot lock, check the slot, choose the output directory
\* (t0: the clock as new_id reads it; limit: the bound on invocations)
StartRunLock(t, mode, value, t0, limit) ==
  /\ th[t].pc = "idle"
  /\ childLock = None
  /\ starts < limit
  /\ starts' = starts + 1
  /\ IF SlotOccupied(child)
     THEN /\ Return(t, "start_run", "run already in progress", NoDir, <<>>)
          /\ UNCHANGED <<now, childLock, lastOutputDir>>
     ELSE /\ now' = t0
          /\ childLock' = t
          /\ lastOutputDir' = resolve_default_output_dir(t0)
          /\ th' = [th EXCEPT ![t] = [IdleThread EXCEPT
                      !.pc = "sr_persist", !.mode = mode, !.value = value,
                      !.out = resolve_default_output_dir(t0)]]
          /\ lastRet' = NoRet
  /\ UNCHANGED <<child, histLock, history, disk, configs, procs, sinkUp, lastRecorded,
                 faults, listed, launcher>>

\* main.rs:80-86, 237-241: build the entry, take the history lock, insert, truncate
\* (t1, t2: the clock as new_id and now_iso read it)
PersistLock(t, t1, t2) ==
  /\ th[t].pc = "sr_persist"
  /\ histLock = None
  /\ LET entry == HistoryEntry(new_id(t1), now_iso(t2), th[t].mode, th[t].value,
                               th[t].out) IN
       /\ history' = TruncateHistory(InsertEntry(history, entry))
       /\ lastRecorded' = entry
  /\ now' = t2
  /\ histLock' = t
  /\ th' = [th EXCEPT ![t].pc = "ph_write"]
  /\ lastRet' = NoRet
  /\ UNCHANGED <<child, childLock, lastOutputDir, disk, configs, procs, sinkUp, starts,
                 faults, listed, launcher>>

\* main.rs:242-248: create_dir_all, serialize, write; then the history guard drops.
\* A failed write leaves the file as it was or truncated (unparseable).
PersistWrite(t) ==
  /\ th[t].pc = "ph_write"
  /\ histLock' = DropGuard(histLock)
  /\ \E res \in Outcomes({"mkdir_err", "write_err"}) :
       /\ Fault(res)
       /\ IF res = "ok"
          THEN /\ disk' = SerializeHistory(history)
               /\ th' = [th EXCEPT ![t].pc = "sr_args"]
               /\ UNCHANGED childLock
               /\ lastRet' = NoRet
          ELSE /\ disk' \in (IF res = "write_err" THEN {disk, CorruptFile} ELSE {disk})
               /\ Return(t, "start_run", res, NoDir, <<>>)
               /\ childLock' = DropGuard(childLock)
  /\ UNCHANGED <<now, child, lastOutputDir, history, configs, procs, sinkUp, starts,
                 lastRecorded, listed, launcher>>

\* write_url_mode_config: the file at ConfigPath(dir) now holds the document
WriteConfig(files, dir, base_url) ==
  {f \in files : f.path # ConfigPath(dir)}
    \cup {[path |-> ConfigPath(dir), content |-> ApexConfigDoc(base_url)]}

\* main.rs:87-105: the argument vector; in url mode the config file is written first
StartRunArgs(t) ==
  /\ th[t].pc = "sr_args"
  /\ \E res \in Outcomes({"config_err"}) :
       /\ Fault(res)
       /\ IF th[t].mode = "folder"
          THEN /\ res = "ok"
               /\ th' = [th EXCEPT ![t].pc = "sr_spawn",
                                   ![t].args = FolderArgs(th[t].out, th[t].value)]
               /\ UNCHANGED <<configs, childLock>>
               /\ lastRet' = NoRet
          ELSE IF res = "ok"
          THEN /\ configs' = WriteConfig(configs, th[t].out, th[t].value)
               /\ th' = [th EXCEPT ![t].pc = "sr_spawn",
                                   ![t].args = UrlArgs(th[t].out, ConfigPath(th[t].out))]
               /\ UNCHANGED childLock
               /\ lastRet' = NoRet
          ELSE /\ Return(t, "start_run", res, NoDir, <<>>)
               /\ childLock' = DropGuard(childLock)
               /\ UNCHANGED configs
  /\ UNCHANGED <<now, child, histLock, lastOutputDir, history, disk, procs, sinkUp,
                 starts, lastRecorded, listed, launcher>>

\* main.rs:106-147: sidecar lookup, spawn, store the handle, spawn the reader task
StartRunSpawn(t) ==
  /\ th[t].pc = "sr_spawn"
  /\ childLock' = DropGuard(childLock)
  /\ \E res \in Outcomes({"sidecar_err", "spawn_err"}) :
       /\ Fault(res)
       /\ IF res = "ok"
          THEN /\ procs' = Append(procs, NewProc(th[t].args))
               /\ child' = Len(procs) + 1
               /\ Return(t, "start_run", "", th[t].out, <<>>)
          ELSE /\ Return(t, "start_run", res, NoDir, <<>>)
               /\ UNCHANGED <<procs, child>>
  /\ UNCHANGED <<now, histLock, lastOutputDir, history, disk, configs, sinkUp, starts,
                 lastRecorded, listed, launcher>>

(* ------------------------------ cancel_run ----------------------------- *)
\* main.rs:152
CancelRunLock(t) ==
  /\ th[t].pc = "idle"
  /\ childLock = None
  /\ childLock' = t
  /\ th' = [th EXCEPT ![t] = [IdleThread EXCEPT !.pc = "cr_kill"]]
  /\ lastRet' = NoRet
  /\ UNCHANGED <<now, child, histLock, lastOutputDir, history, disk, configs, procs,
                 sinkUp, starts, lastRecorded, faults, listed, launcher>>

\* the process ends: the channel delivers Terminated as its last event
EndProc(p) ==
  IF p.alive THEN [p EXCEPT !.alive = FALSE, !.sent = Append(p.sent, Terminated)]
  ELSE p

\* child.kill() succeeded on the process in the slot; the slot is cleared for it
KillChild(ps, c) == [ps EXCEPT ![c] = [EndProc(ps[c]) EXCEPT !.clears = @ + 1]]

\* (mutant) cancel_run leaves the handle in the slot
CancelSlot_keep(c) == c

\* main.rs:156  *guard = None
CancelSlot(c) == None

\* (mutant) cancel_run without a run in progress is an error
CancelErr_noRun(c, res) ==
  IF c = None THEN "no run in progress" ELSE IF res # "ok" THEN res ELSE ""

\* main.rs:153-155, 157: kill() is only called on a handle; its error is returned
CancelErr(c, res) == IF c # None /\ res # "ok" THEN res ELSE ""

\* main.rs:153-157: kill the child if there is one, clear the slot
CancelRunKill(t) ==
  /\ th[t].pc = "cr_kill"
  /\ childLock' = DropGuard(childLock)
  /\ \E res \in Outcomes({"kill_err"}) :
       /\ Fault(res)
       /\ IF child = None
          THEN /\ res = "ok"
               /\ child' = CancelSlot(child)
               /\ Return(t, "cancel_run", CancelErr(child, res), NoDir, <<>>)
               /\ UNCHANGED procs
          ELSE IF res = "ok"
          THEN /\ procs' = KillChild(procs, child)
               /\ child' = CancelSlot(child)
               /\ Return(t, "cancel_run", CancelErr(child, res), NoDir, <<>>)
          ELSE /\ Return(t, "cancel_run", CancelErr(child, res), NoDir, <<>>)
               /\ UNCHANGED <<procs, child>>
  /\ UNCHANGED <<now, histLock, lastOutputDir, history, disk, configs, sinkUp, starts,
                 lastRecorded, listed, launcher>>

(* ----------------------------- list_history ---------------------------- *)
\* main.rs:183: read the file before taking the lock
ListHistoryLoad(t) ==
  /\ th[t].pc = "idle"
  /\ th' = [th EXCEPT ![t] = [IdleThread EXCEPT
              !.pc = "lh_lock", !.loaded = load_history(disk).list]]
  /\ lastRet' = NoRet
  /\ UNCHANGED <<now, child, childLock, histLock, lastOutputDir, history, disk,
                 configs, procs, sinkUp, starts, lastRecorded, faults, listed,
                 launcher>>

\* main.rs:185-187
CacheHistory(h, loaded) == IF h = <<>> THEN loaded ELSE h

\* main.rs:184-188
ListHistoryLock(t) ==
  /\ th[t].pc = "lh_lock"
  /\ histLock = None
  /\ history' = CacheHistory(history, th[t].loaded)
  /\ Return(t, "list_history", "", NoDir, history')
  /\ listed' = TRUE
  /\ UNCHANGED <<now, child, childLock, histLock, lastOutputDir, disk, configs, procs,
                 sinkUp, starts, lastRecorded, faults, launcher>>

\* another program replaces, removes or damages history.json
ExternalChange(file) ==
  /\ disk # file
  /\ disk' = file
  /\ lastRet' = NoRet
  /\ UNCHANGED <<now, child, childLock, histLock, lastOutputDir, history, configs,
                 procs, th, sinkUp, starts, lastRecorded, faults, listed, launcher>>

(* ------------------------- engine process, reader ---------------------- *)
RECURSIVE LinesWritten(_)
LinesWritten(ps) ==
  IF ps = <<>> THEN 0
  ELSE Cardinality({i \in 1..Len(Head(ps).sent) : Head(ps).sent[i] # Terminated})
         + LinesWritten(Tail(ps))

\* the engine writes a line (or a pipe read fails: type "Error")
ProcOutput(r, ev, limit) ==
  /\ procs[r].alive
  /\ LinesWritten(procs) < limit
  /\ procs' = [procs EXCEPT ![r].sent = Append(@, ev)]
  /\ lastRet' = NoRet
  /\ UNCHANGED <<now, child, childLock, histLock, lastOutputDir, history, disk,
                 configs, th, sinkUp, starts, lastRecorded, faults, listed, launcher>>

\* the engine exits on its own (success or failure)
ProcExit(r) ==
  /\ procs[r].alive
  /\ procs' = [procs EXCEPT ![r] = EndProc(@)]
  /\ lastRet' = NoRet
  /\ UNCHANGED <<now, child, childLock, histLock, lastOutputDir, history, disk,
                 configs, th, sinkUp, starts, lastRecorded, faults, listed, launcher>>

\* the webview goes away: emit fails from now on
SinkGone ==
  /\ sinkUp
  /\ sinkUp' = FALSE
  /\ lastRet' = NoRet
  /\ UNCHANGED <<now, child, childLock, histLock, lastOutputDir, history, disk,
                 configs, procs, th, starts, lastRecorded, faults, listed, launcher>>

NoPayload == [emit |-> FALSE, payload |-> JNull]
Payload(v) == [emit |-> TRUE, payload |-> v]

\* main.rs:113-123
StdoutPayload(bytes) ==
  LET line == Trim(bytes) IN
  IF line = <<>> THEN NoPayload
  ELSE IF FromStr(line).ok THEN Payload(FromStr(line).val)
  ELSE Payload(JStr(line))

\* (mutant) stderr lines are parsed as JSON like stdout lines
StderrPayload_parsed(bytes) == StdoutPayload(bytes)

\* (mutant) blank stderr lines are emitted too
StderrPayload_blank(bytes) == Payload(JStr(Trim(bytes)))

\* main.rs:124-129
StderrPayload(bytes) ==
  LET line == Trim(bytes) IN
  IF line # <<>> THEN Payload(JStr(line)) ELSE NoPayload

\* (mutant) nothing is emitted when the process terminates
ReaderPayload_silentEnd(ev) ==
  IF ev.type = "Stdout" THEN StdoutPayload(ev.line)
  ELSE IF ev.type = "Stderr" THEN StderrPayload(ev.line)
  ELSE NoPayload

\* main.rs:112-138: what one received event makes the reader emit
ReaderPayload(ev) ==
  IF ev.type = "Stdout" THEN StdoutPayload(ev.line)
  ELSE IF ev.type = "Stderr" THEN StderrPayload(ev.line)
  ELSE IF ev.type = "Terminated" THEN Payload(LauncherTerminated)
  ELSE NoPayload

\* main.rs:130-136: the loop ends on Terminated
LoopEnds(ev) == ev.type = "Terminated"

\* main.rs:111-139: rx.recv() yields the next event; emit; break on Terminated.
\* (The channel closes only after Terminated, so recv() never yields None first.)
ReaderRecv(r) ==
  /\ procs[r].rd = "recv"
  /\ procs[r].pos < Len(procs[r].sent)
  /\ LET i == procs[r].pos + 1
         ev == procs[r].sent[i]
         out == ReaderPayload(ev) IN
     procs' = [procs EXCEPT
                 ![r].pos = i,
                 ![r].emitted = IF out.emit THEN Emit(@, out.payload, i) ELSE @,
                 ![r].rd = IF LoopEnds(ev) THEN "clear" ELSE "recv"]
  /\ lastRet' = NoRet
  /\ UNCHANGED <<now, child, childLock, histLock, lastOutputDir, history, disk,
                 configs, th, sinkUp, starts, lastRecorded, faults, listed, launcher>>

\* (mutant) the reader leaves the slot as it is
ReaderSlot_keep(c, r) == c

\* main.rs:143: what the reader of run r stores in the slot holding c
ReaderSlot(c, r) == None

\* main.rs:140-145: after the loop, lock the slot and clear it
ReaderClear(r) ==
  /\ procs[r].rd = "clear"
  /\ childLock = None
  /\ child' = ReaderSlot(child, r)
  /\ procs' = [procs EXCEPT ![r].rd = "done", ![r].clears = @ + 1]
  /\ lastRet' = NoRet
  /\ UNCHANGED <<now, childLock, histLock, lastOutputDir, history, disk, configs, th,
                 sinkUp, starts, lastRecorded, faults, listed, launcher>>

(* ------------------------------ launcher ------------------------------- *)
\* A path is the sequence of its components; "/" first makes it absolute.
\* PathBuf::join: an absolute argument replaces the base
Join(base, rel) == IF rel # <<>> /\ rel[1] = "/" THEN rel ELSE base \o rel

\* Path::parent: None for the root and for the empty path
NoParent == [some |-> FALSE, path |-> <<>>]
Parent(p) ==
  IF Len(p) <= 1 THEN NoParent ELSE [some |-> TRUE, path |-> SubSeq(p, 1, Len(p) - 1)]

\* launcher main.rs:107-120, for one environment
resolve_cache_dir == <<"/", "cache", "signaler">>

\* launcher main.rs:122-124
resolve_cached_engine_manifest_path ==
  Join(Join(resolve_cache_dir, <<"engine">>), <<"engine.manifest.json">>)

\* files: besides MissingFile and CorruptFile (text that is no JSON), a file that
\* exists and cannot be read, an empty directory, any other file, and a JSON
\* document given by its members
UnreadableFile == [kind |-> "unreadable", doc |-> <<>>]
EmptyDir == [kind |-> "dir", doc |-> <<>>]
OtherFile == [kind |-> "file", doc |-> <<>>]
JsonFile(doc) == [kind |-> "doc", doc |-> doc]

\* q is p or lies below p
IsPrefix(p, q) == Len(p) <= Len(q) /\ SubSeq(q, 1, Len(p)) = p

\* Path::exists: something is at p, or below it (then p is a directory)
Exists(fs, p) ==
  \E q \in DOMAIN fs : fs[q].kind # "missing" /\ IsPrefix(p, q)

\* launcher main.rs:85-92
EngineManifest(schema_version, engine_version, min_node, entry, default_output_dir_name) ==
  [schema_version |-> schema_version, engine_version |-> engine_version,
   min_node |-> min_node, entry |-> entry,
   default_output_dir_name |-> default_output_dir_name]
NoManifest == EngineManifest(0, "", "", <<>>, "")

\* launcher main.rs:94-105: the members EngineManifestRaw requires
RawKeys == {"schemaVersion", "engineVersion", "minNode", "entry", "defaultOutputDirName"}

ReadErr(err) == [ok |-> FALSE, err |-> err, manifest |-> NoManifest]

\* launcher main.rs:162-172: read_to_string, from_str::<EngineManifestRaw>, copy
read_engine_manifest(fs, path) ==
  LET file == IF path \in DOMAIN fs THEN fs[path] ELSE MissingFile IN
  IF file.kind # "doc" /\ file.kind # "corrupt" THEN ReadErr("io")
  ELSE IF file.kind = "corrupt" THEN ReadErr("parse")
  ELSE IF ~(RawKeys \subseteq DOMAIN file.doc) THEN ReadErr("parse")
  ELSE IF file.doc.schemaVersion < 0 THEN ReadErr("parse")
  ELSE [ok |-> TRUE, err |-> "",
        manifest |-> EngineManifest(file.doc.schemaVersion, file.doc.engineVersion,
                                    file.doc.minNode, file.doc.entry,
                                    file.doc.defaultOutputDirName)]

\* launcher main.rs:126-132, as the Result of resolve_engine_manifest_info
EngineManifestInfo(manifest_path, manifest, from_cache, cache_dir) ==
  [ok |-> TRUE, err |-> "", manifest_path |-> manifest_path, manifest |-> manifest,
   from_cache |-> from_cache, cache_dir |-> cache_dir]
InfoErr(err) ==
  [ok |-> FALSE, err |-> err, manifest_path |-> <<>>, manifest |-> NoManifest,
   from_cache |-> FALSE, cache_dir |-> <<>>]

\* one candidate: the `?` on read_engine_manifest, then the Ok(...)
FromCandidate(fs, path, from_cache) ==
  LET m == read_engine_manifest(fs, path) IN
  IF m.ok THEN EngineManifestInfo(path, m.manifest, from_cache, resolve_cache_dir)
  ELSE InfoErr(m.err)

\* std::env::current_exe(): the path of the launcher, or an error
ExeKnown(path) == [ok |-> TRUE, path |-> path]
ExeUnknown == [ok |-> FALSE, path |-> <<>>]

\* (mutant) the manifest next to the launcher is looked at before the cache
resolve_engine_manifest_info_localFirst(fs, exe) ==
  LET cached == resolve_cached_engine_manifest_path
      local == Join(Parent(exe.path).path, <<"engine.manifest.json">>) IN
  IF exe.ok /\ Parent(exe.path).some /\ Exists(fs, local)
  THEN FromCandidate(fs, local, FALSE)
  ELSE IF Exists(fs, cached) THEN FromCandidate(fs, cached, TRUE)
  ELSE InfoErr("manifest not found")

\* (mutant) a candidate that cannot be read or parsed is skipped
resolve_engine_manifest_info_skipping(fs, exe) ==
  LET cached == resolve_cached_engine_manifest_path
      local == Join(Parent(exe.path).path, <<"engine.manifest.json">>)
      up == Parent(Parent(exe.path).path)
      p == Join(up.path, <<"engine.manifest.json">>) IN
  IF read_engine_manifest(fs, cached).ok THEN FromCandidate(fs, cached, TRUE)
  ELSE IF ~exe.ok THEN InfoErr("current_exe")
  ELSE IF ~Parent(exe.path).some THEN InfoErr("no launcher directory")
  ELSE IF read_engine_manifest(fs, local).ok THEN FromCandidate(fs, local, FALSE)
  ELSE IF up.some /\ read_engine_manifest(fs, p).ok THEN FromCandidate(fs, p, FALSE)
  ELSE InfoErr("manifest not found")

\* launcher main.rs:134-156
resolve_engine_manifest_info(fs, exe) ==
  LET cached == resolve_cached_engine_manifest_path
      exe_dir == Parent(exe.path)
      local == Join(exe_dir.path, <<"engine.manifest.json">>)
      parent == Parent(exe_dir.path)
      p == Join(parent.path, <<"engine.manifest.json">>) IN
  IF Exists(fs, cached) THEN FromCandidate(fs, cached, TRUE)
  ELSE IF ~exe.ok THEN InfoErr("current_exe")
  ELSE IF ~exe_dir.some THEN InfoErr("no launcher directory")
  ELSE IF Exists(fs, local) THEN FromCandidate(fs, local, FALSE)
  ELSE IF parent.some /\ Exists(fs, p) THEN FromCandidate(fs, p, FALSE)
  ELSE InfoErr("manifest not found")

EntryOk(path) == [ok |-> TRUE, err |-> "", path |-> path]
EntryErr(err) == [ok |-> FALSE, err |-> err, path |-> <<>>]

\* (mutant) the entry file is looked for before the schema version is checked
resolve_engine_entry_from_info_entryFirst(fs, info) ==
  LET base == Parent(info.manifest_path)
      entry_path == Join(base.path, info.manifest.entry) IN
  IF ~base.some THEN EntryErr("manifest has no parent directory")
  ELSE IF ~Exists(fs, entry_path) THEN EntryErr("entry not found")
  ELSE IF info.manifest.schema_version # 1 THEN EntryErr("unsupported schemaVersion")
  ELSE EntryOk(entry_path)

\* launcher main.rs:174-184
resolve_engine_entry_from_info(fs, info) ==
  LET base == Parent(info.manifest_path)
      entry_path == Join(base.path, info.manifest.entry) IN
  IF info.manifest.schema_version # 1 THEN EntryErr("unsupported schemaVersion")
  ELSE IF ~base.some THEN EntryErr("manifest has no parent directory")
  ELSE IF ~Exists(fs, entry_path) THEN EntryErr("entry not found")
  ELSE EntryOk(entry_path)

\* Option<String>
NoVersion == [some |-> FALSE, v |-> ""]
SomeVersion(v) == [some |-> TRUE, v |-> v]

\* launcher main.rs:186-202
EngineCacheLayout(info, engines_dir, latest_dir, version_dir, selected_dir, selection_state, latest_available, latest_manifest_version, latest_matches_manifest) ==
  [schema_version |-> 1, cache_dir |-> info.cache_dir, engines_dir |-> engines_dir,
   latest_dir |-> latest_dir, version_dir |-> version_dir,
   selected_dir |-> selected_dir, expected_engine_root |-> version_dir,
   selection_kind |-> "manifest_version",
   selection_value |-> info.manifest.engine_version,
   selection_state |-> selection_state, latest_available |-> latest_available,
   latest_manifest_version |-> latest_manifest_version,
   latest_matches_manifest |-> latest_matches_manifest,
   manifest_engine_version |-> info.manifest.engine_version]

\* launcher main.rs:221-223: read_engine_manifest(...).ok().map(|m| m.engine_version)
LatestVersion(fs, latest_dir) ==
  LET m == read_engine_manifest(fs, Join(latest_dir, <<"engine.manifest.json">>)) IN
  IF m.ok THEN SomeVersion(m.manifest.engine_version) ELSE NoVersion

\* (mutant) the latest directory is selected when it holds the same version
build_cache_layout_selectsLatest(fs, info) ==
  LET engines_dir == Join(info.cache_dir, <<"engine">>)
      latest_dir == Join(engines_dir, <<"latest">>)
      version_dir == Join(engines_dir, <<info.manifest.engine_version>>)
      latest == LatestVersion(fs, latest_dir)
      matches == latest.some /\ latest.v = info.manifest.engine_version IN
  EngineCacheLayout(info, engines_dir, latest_dir, version_dir,
                    IF matches THEN latest_dir ELSE version_dir,
                    IF matches THEN "latest" ELSE "pinned",
                    Exists(fs, latest_dir), latest, matches)

\* launcher main.rs:213-245
build_cache_layout(fs, info) ==
  LET engines_dir == Join(info.cache_dir, <<"engine">>)
      latest_dir == Join(engines_dir, <<"latest">>)
      version_dir == Join(engines_dir, <<info.manifest.engine_version>>)
      latest_available == Exists(fs, latest_dir)
      latest_manifest_version == LatestVersion(fs, latest_dir)
      latest_matches_manifest ==
        latest_manifest_version.some
          /\ latest_manifest_version.v = info.manifest.engine_version
      selection_state == IF latest_matches_manifest THEN "latest" ELSE "pinned" IN
  EngineCacheLayout(info, engines_dir, latest_dir, version_dir, version_dir,
                    selection_state, latest_available, latest_manifest_version,
                    latest_matches_manifest)

\* the launcher process before main() has run, over a file system
NoLayout ==
  EngineCacheLayout(InfoErr(""), <<>>, <<>>, <<>>, <<>>, "", FALSE, NoVersion, FALSE)
NewLauncher(fs, exe) ==
  [pc |-> "start", fs |-> fs, exe |-> exe, info |-> InfoErr(""),
   entry |-> EntryErr(""), layout |-> NoLayout]

\* launcher main.rs:426-432, 485-491: resolve the manifest or exit with code 1
LauncherResolve ==
  /\ launcher.pc = "start"
  /\ LET info == resolve_engine_manifest_info(launcher.fs, launcher.exe) IN
     launcher' = [launcher EXCEPT !.info = info,
                                  !.pc = IF info.ok THEN "resolved" ELSE "failed"]
  /\ UNCHANGED <<now, child, childLock, histLock, lastOutputDir, history, disk,
                 configs, procs, th, sinkUp, starts, lastRecorded, lastRet, faults,
                 listed>>

\* launcher main.rs:248, 272, 295, 463: the entry path, or exit with code 1
LauncherEntry ==
  /\ launcher.pc = "resolved"
  /\ LET entry == resolve_engine_entry_from_info(launcher.fs, launcher.info) IN
     launcher' = [launcher EXCEPT !.entry = entry,
                                  !.pc = IF entry.ok THEN "entry" ELSE "failed"]
  /\ UNCHANGED <<now, child, childLock, histLock, lastOutputDir, history, disk,
                 configs, procs, th, sinkUp, starts, lastRecorded, lastRet, faults,
                 listed>>

\* launcher main.rs:255, 305: the cache layout of the report
LauncherLayout ==
  /\ launcher.pc = "entry"
  /\ launcher' = [launcher EXCEPT
                    !.layout = build_cache_layout(launcher.fs, launcher.info),
                    !.pc = "done"]
  /\ UNCHANGED <<now, child, childLock, histLock, lastOutputDir, history, disk,
                 configs, procs, th, sinkUp, starts, lastRecorded, lastRet, faults,
                 listed>>

(* ---------------------------- specification ---------------------------- *)
BasicEvents == {Ev("Stdout", <<"1">>), Ev("Stderr", <<" ">>)}

\* the slot and its users; the clock does not advance
Next ==
  \/ \E t \in Threads : \E mode \in {"url"} : \E value \in Targets :
       StartRunLock(t, mode, value, now, MaxStarts)
  \/ \E t \in Threads : PersistLock(t, now, now)
  \/ \E t \in Threads : PersistWrite(t)
  \/ \E t \in Threads : StartRunArgs(t)
  \/ \E t \in Threads : StartRunSpawn(t)
  \/ \E t \in Threads : CancelRunLock(t)
  \/ \E t \in Threads : CancelRunKill(t)
  \/ \E t \in Threads : ListHistoryLoad(t)
  \/ \E t \in Threads : ListHistoryLock(t)
  \/ \E r \in Runs : \E ev \in BasicEvents : ProcOutput(r, ev, MaxLines)
  \/ \E r \in Runs : ProcExit(r)
  \/ \E r \in Runs : ReaderRecv(r)
  \/ \E r \in Runs : ReaderClear(r)

Init == InitOver({MissingFile})

Spec == Init /\ [][Next]_vars

\* the steps of a command after it has taken a lock
ThreadRuns(t) ==
  PersistLock(t, now, now) \/ PersistWrite(t) \/ StartRunArgs(t) \/ StartRunSpawn(t)
    \/ CancelRunKill(t) \/ ListHistoryLock(t)

\* the slot and its users, over fewer invocations
NextLive ==
  \/ \E t \in Threads : \E mode \in {"url"} : \E value \in Targets :
       StartRunLock(t, mode, value, now, MaxLiveStarts)
  \/ \E t \in Threads : PersistLock(t, now, now)
  \/ \E t \in Threads : PersistWrite(t)
  \/ \E t \in Threads : StartRunArgs(t)
  \/ \E t \in Threads : StartRunSpawn(t)
  \/ \E t \in Threads : CancelRunLock(t)
  \/ \E t \in Threads : CancelRunKill(t)
  \/ \E t \in Threads : ListHistoryLoad(t)
  \/ \E t \in Threads : ListHistoryLock(t)
  \/ \E r \in Runs : \E ev \in BasicEvents : ProcOutput(r, ev, MaxLines)
  \/ \E r \in Runs : ProcExit(r)
  \/ \E r \in Runs : ReaderRecv(r)
  \/ \E r \in Runs : ReaderClear(r)

\* The command that holds the slot lock runs on to its return; the runtime keeps
\* scheduling the reader tasks, and a reader that keeps asking for the slot lock
\* gets it. Nothing makes a caller invoke a command or an engine exit.
Fairness ==
  /\ WF_vars(\E t \in Threads : ThreadRuns(t) /\ childLock = t)
  /\ WF_vars(\E r \in Runs : ReaderRecv(r))
  /\ SF_vars(\E r \in Runs : ReaderClear(r))

FairSpec == Init /\ [][NextLive]_vars /\ Fairness

\* the lines an engine may write: blank, text, JSON, padded JSON, cut-off JSON
StreamLines ==
  { <<" ">>, <<"n", " ", "o">>, <<" ", "7", " ">>,
    <<"{", "\"", "t", "\"", ":", "5", "}">>, <<"{", "\"", "t", "\"", ":", "5">>,
    <<"\"", "x", "\"">> }
StreamEvents ==
  {Ev(type, line) : type \in {"Stdout", "Stderr"}, line \in StreamLines}
    \cup {Ev("Error", <<>>)}

\* the event stream of a run; the sink may go away
NextStream ==
  \/ \E t \in Threads : \E mode \in {"folder"} : \E value \in Targets :
       StartRunLock(t, mode, value, now, MaxStreamStarts)
  \/ \E t \in Threads : PersistLock(t, now, now)
  \/ \E t \in Threads : PersistWrite(t)
  \/ \E t \in Threads : StartRunArgs(t)
  \/ \E t \in Threads : StartRunSpawn(t)
  \/ \E t \in Threads : CancelRunLock(t)
  \/ \E t \in Threads : CancelRunKill(t)
  \/ \E r \in Runs : \E ev \in StreamEvents : ProcOutput(r, ev, MaxStreamLines)
  \/ \E r \in Runs : ProcExit(r)
  \/ \E r \in Runs : ReaderRecv(r)
  \/ \E r \in Runs : ReaderClear(r)
  \/ SinkGone

SpecStream == Init /\ [][NextStream]_vars

\* the history.json files an earlier process may have left
HistoryFiles ==
  {MissingFile, CorruptFile, SerializeHistory(OldHistory(1)),
   SerializeHistory(OldHistory(HistoryCap - 1)), SerializeHistory(OldHistory(HistoryCap))}

InitHistory == InitOver(HistoryFiles)

\* the history store; the clock advances between its readings
NextHistory ==
  \/ \E t \in Threads : \E mode \in {"folder"} : \E value \in Targets :
     \E t0 \in now..MaxClock :
       StartRunLock(t, mode, value, t0, MaxHistoryStarts)
  \/ \E t \in Threads : \E t1 \in now..MaxClock : \E t2 \in t1..MaxClock :
       PersistLock(t, t1, t2)
  \/ \E t \in Threads : PersistWrite(t)
  \/ \E t \in Threads : StartRunArgs(t)
  \/ \E t \in Threads : StartRunSpawn(t)
  \/ \E t \in Threads : CancelRunLock(t)
  \/ \E t \in Threads : CancelRunKill(t)
  \/ \E t \in Threads : ListHistoryLoad(t)
  \/ \E t \in Threads : ListHistoryLock(t)
  \/ \E r \in Runs : ProcExit(r)
  \/ \E r \in Runs : ReaderRecv(r)
  \/ \E r \in Runs : ReaderClear(r)

SpecHistory == InitHistory /\ [][NextHistory]_vars

\* the history.json files another program may leave
ExternalFiles ==
  {MissingFile, CorruptFile, SerializeHistory(OldHistory(1)),
   SerializeHistory(OldHistory(2))}

InitCache == InitOver(ExternalFiles)

\* list_history and start_run over a history.json that other programs change
NextCache ==
  \/ \E t \in Threads : \E mode \in {"folder"} : \E value \in Targets :
       StartRunLock(t, mode, value, now, MaxCacheStarts)
  \/ \E t \in Threads : PersistLock(t, now, now)
  \/ \E t \in Threads : PersistWrite(t)
  \/ \E t \in Threads : StartRunArgs(t)
  \/ \E t \in Threads : StartRunSpawn(t)
  \/ \E t \in Threads : ListHistoryLoad(t)
  \/ \E t \in Threads : ListHistoryLock(t)
  \/ \E file \in ExternalFiles : ExternalChange(file)

SpecCache == InitCache /\ [][NextCache]_vars

\* runs of both modes and their workspaces; the clock advances between its
\* readings, or does not
NextWorkspace ==
  \/ \E t \in Threads : \E mode \in Modes : \E value \in Targets :
     \E t0 \in now..MaxClock :
       StartRunLock(t, mode, value, t0, MaxWorkspaceStarts)
  \/ \E t \in Threads : \E t1 \in now..MaxClock : \E t2 \in t1..MaxClock :
       PersistLock(t, t1, t2)
  \/ \E t \in Threads : PersistWrite(t)
  \/ \E t \in Threads : StartRunArgs(t)
  \/ \E t \in Threads : StartRunSpawn(t)
  \/ \E t \in Threads : CancelRunLock(t)
  \/ \E t \in Threads : CancelRunKill(t)
  \/ \E r \in Runs : ProcExit(r)
  \/ \E r \in Runs : ReaderRecv(r)
  \/ \E r \in Runs : ReaderClear(r)

SpecWorkspace == Init /\ [][NextWorkspace]_vars

\* manifest documents: two of schema 1, one of schema 2, one whose members are
\* not renamed to camelCase, one with an absolute entry
DocA ==
  [schemaVersion |-> 1, engineVersion |-> "1.2.3", minNode |-> "20",
   entry |-> <<"dist", "bin.js">>, defaultOutputDirName |-> "out"]
DocB ==
  [schemaVersion |-> 1, engineVersion |-> "2.0.0", minNode |-> "20",
   entry |-> <<"main.js">>, defaultOutputDirName |-> "out"]
DocV2 == [DocA EXCEPT !.schemaVersion = 2]
DocSnake ==
  [schema_version |-> 1, engine_version |-> "1.2.3", min_node |-> "20",
   entry |-> <<"dist", "bin.js">>, default_output_dir_name |-> "out"]
DocAbs == [DocA EXCEPT !.entry = <<"/", "opt", "engine.js">>]

CacheFiles ==
  {MissingFile, UnreadableFile, CorruptFile, JsonFile(DocA), JsonFile(DocB),
   JsonFile(DocV2), JsonFile(DocSnake), JsonFile(DocAbs)}
LocalFiles ==
  {MissingFile, UnreadableFile, CorruptFile, JsonFile(DocA), JsonFile(DocB),
   JsonFile(DocV2)}
ParentFiles == {MissingFile, CorruptFile, JsonFile(DocB)}
LatestFiles ==
  {MissingFile, EmptyDir, UnreadableFile, CorruptFile, JsonFile(DocA), JsonFile(DocB)}

\* where the launcher executable is
Exes ==
  {ExeKnown(<<"/", "app", "bin", "signaler">>), ExeKnown(<<"/", "signaler">>),
   ExeUnknown}

EnginesDir == Join(resolve_cache_dir, <<"engine">>)
LatestDir == Join(EnginesDir, <<"latest">>)
LatestManifest == Join(LatestDir, <<"engine.manifest.json">>)
LocalManifest(exe) == Join(Parent(exe.path).path, <<"engine.manifest.json">>)
ParentManifest(exe) ==
  Join(Parent(Parent(exe.path).path).path, <<"engine.manifest.json">>)
HasParentDir(exe) == exe.ok /\ Parent(Parent(exe.path).path).some

\* the directories a manifest may be resolved in
Bases(exe) ==
  {EnginesDir}
    \cup (IF exe.ok THEN {Parent(exe.path).path} ELSE {})
    \cup (IF HasParentDir(exe) THEN {Parent(Parent(exe.path).path).path} ELSE {})
Entries == {DocA.entry, DocB.entry}

\* a file system: the three candidates, latest/, and the directories (dirs) in
\* which the entry files exist
MakeFs(exe, cacheF, localF, parentF, latestF, dirs, absEntry) ==
  LET manifests ==
        {<<resolve_cached_engine_manifest_path, cacheF>>}
          \cup (IF exe.ok THEN {<<LocalManifest(exe), localF>>} ELSE {})
          \cup (IF HasParentDir(exe) THEN {<<ParentManifest(exe), parentF>>} ELSE {})
      latest ==
        IF latestF = EmptyDir THEN {<<LatestDir, EmptyDir>>}
        ELSE {<<LatestManifest, latestF>>}
      entries ==
        {<<Join(b, e), OtherFile>> : b \in dirs \cap Bases(exe), e \in Entries}
          \cup (IF absEntry THEN {<<DocAbs.entry, OtherFile>>} ELSE {})
      all == manifests \cup latest \cup entries IN
  [q \in {b[1] : b \in all} |-> (CHOOSE b \in all : b[1] = q)[2]]

InitLauncher ==
  /\ now = 0
  /\ child = None
  /\ childLock = None
  /\ histLock = None
  /\ lastOutputDir = NoDir
  /\ history = <<>>
  /\ disk = MissingFile
  /\ configs = {}
  /\ procs = <<>>
  /\ th = [t \in Threads |-> IdleThread]
  /\ sinkUp = TRUE
  /\ starts = 0
  /\ lastRecorded = NoEntry
  /\ lastRet = NoRet
  /\ faults = 0
  /\ listed = FALSE
  /\ \E exe \in Exes : \E cacheF \in CacheFiles : \E localF \in LocalFiles :
     \E parentF \in ParentFiles : \E latestF \in LatestFiles :
     \E dirs \in SUBSET Bases(ExeKnown(<<"/", "app", "bin", "signaler">>)) :
     \E absEntry \in BOOLEAN :
       launcher = NewLauncher(
         MakeFs(exe, cacheF, localF, parentF, latestF, dirs, absEntry), exe)

\* one run of the launcher
NextLauncher ==
  \/ LauncherResolve
  \/ LauncherEntry
  \/ LauncherLayout

SpecLauncher == InitLauncher /\ [][NextLauncher]_vars

(* ------------------------------- claims -------------------------------- *)
Alive == {r \in Runs : procs[r].alive}

\* C1: at most one engine process spawned by start_run is alive at any time
\* (a start_run issued while an earlier engine is running never spawns a second).
C1_AtMostOneAlive == Cardinality(Alive) <= 1

\* the step is the slot check of a start_run invocation (main.rs:74-77)
StartRunChecks == starts' = starts + 1

\* C2: a start_run that finds the slot occupied returns "run already in progress"
\* in that same step and changes nothing: no history entry, no last-output-dir,
\* no config, no process, the handle stays, and no invocation is left pending.
C2_ConflictChangesNothing ==
  [][StartRunChecks /\ child # None =>
       /\ \E t \in Threads :
            lastRet' = Ret(t, "start_run", "run already in progress", NoDir, <<>>)
       /\ UNCHANGED <<child, childLock, histLock, lastOutputDir, history, disk,
                      configs, procs, lastRecorded, th>>]_vars

C2_Witness ==
  /\ lastRet.err = "run already in progress"
  /\ child # None
  /\ history # <<>>

\* the step is the body of cancel_run (main.rs:153-157), made by thread t
CancelRunActs(t) == th[t].pc = "cr_kill" /\ th'[t].pc = "idle"

\* C3: cancel_run on an empty slot returns success and leaves the slot empty and
\* the history, the file, the processes and everything else as they were; so a
\* cancel_run that follows a successful cancel_run changes nothing either.
C3_CancelEmptyIsNoOp ==
  [][\A t \in Threads :
       /\ CancelRunActs(t) /\ child = None =>
            /\ lastRet' = Ret(t, "cancel_run", "", NoDir, <<>>)
            /\ UNCHANGED <<now, child, histLock, lastOutputDir, history, disk, configs,
                           procs, sinkUp, starts, lastRecorded, faults>>
       /\ th[t].pc = "idle" /\ th'[t].pc = "cr_kill" =>
            UNCHANGED <<now, child, histLock, lastOutputDir, history, disk, configs,
                        procs, sinkUp, starts, lastRecorded, faults>>]_vars

C3_Witness ==
  /\ lastRet.op = "cancel_run"
  /\ lastRet.err = ""
  /\ child = None
  /\ \A r \in Runs : procs[r].clears = 0
  /\ history # <<>>

\* C4 as claimed: whenever cancel_run returns, the slot is empty.
C4_SlotEmptyOnReturn == lastRet.op = "cancel_run" => child = None

\* C4 as amended: a cancel_run on an occupied slot whose kill succeeds ends that
\* process and returns success with the slot empty (a start_run then passes the
\* slot check); one whose kill fails returns the error with slot and process as
\* they were.
C4_CancelKillsAndClears ==
  [][\A t \in Threads :
       CancelRunActs(t) /\ child # None =>
         IF lastRet'.err = ""
         THEN /\ ~procs'[child].alive
              /\ child' = None
              /\ childLock' = None
              /\ ~SlotOccupied(child')
         ELSE /\ lastRet'.err = "kill_err"
              /\ UNCHANGED <<child, procs>>]_vars

C4_Witness ==
  /\ lastRet.op = "cancel_run"
  /\ lastRet.err = ""
  /\ child = None
  /\ \E r \in Runs : procs[r].clears = 1 /\ procs[r].rd = "recv" /\ ~procs[r].alive

\* C5: for every run the slot is cleared on its behalf exactly once: never a
\* second time, and once when its reader task has finished.
C5_ClearedExactlyOnce ==
  \A r \in Runs :
    /\ procs[r].clears <= 1
    /\ procs[r].rd = "done" => procs[r].clears = 1

\* C6: whenever the slot holds the handle of an engine process that has ended,
\* the slot eventually is empty (the reader tasks being scheduled): it never
\* stays occupied forever by an ended process.
C6_SlotEventuallyEmpty ==
  (child # None /\ ~procs[child].alive) ~> (child = None)

\* a run ended by its own exit, and its reader emptied the slot
C6_Witness ==
  \E r \in Runs :
    /\ ~procs[r].alive
    /\ procs[r].rd = "done"
    /\ procs[r].clears = 1
    /\ child = None

\* the emit calls of run r made for its Terminated event
TerminalEmits(r) ==
  {i \in 1..Len(procs[r].emitted) :
     procs[r].sent[procs[r].emitted[i].src].type = "Terminated"}

\* C7: once the reader of a run has received the termination of its process it
\* has emitted launcher_terminated exactly once, as the last event of that run,
\* and nothing after it; before that, never. Also for a run that was cancelled.
C7_OneTerminalEventLast ==
  \A r \in Runs :
    LET em == procs[r].emitted IN
    /\ \A i \in TerminalEmits(r) : i = Len(em) /\ em[i].payload = LauncherTerminated
    /\ IF procs[r].rd \in {"clear", "done"}
       THEN Cardinality(TerminalEmits(r)) = 1
       ELSE TerminalEmits(r) = {}

C7_Witness ==
  \E r \in Runs :
    /\ procs[r].rd = "done"
    /\ procs[r].clears = 2
    /\ Len(procs[r].emitted) = 2
    /\ Cardinality(TerminalEmits(r)) = 1

\* the list is newest first: creation times never increase along it
NewestFirst(h) ==
  \A i \in 1..(Len(h) - 1) : h[i].created_at.iso >= h[i + 1].created_at.iso

\* C10: the history list never holds more than 100 entries, the entry recorded
\* last is at index 0, and the entries are ordered newest first; the same holds of
\* the list in history.json.
C10_HistoryBounded ==
  /\ Len(history) <= HistoryCap
  /\ lastRecorded # NoEntry => history # <<>> /\ history[1] = lastRecorded
  /\ NewestFirst(history)
  /\ Len(load_history(disk).list) <= HistoryCap
  /\ NewestFirst(load_history(disk).list)

\* a full list was loaded, a run was recorded and the oldest entry fell out
C10_Witness ==
  /\ Len(history) = HistoryCap
  /\ lastRecorded # NoEntry
  /\ history[1] = lastRecorded
  /\ history[1].created_at.iso > history[2].created_at.iso
  /\ history[HistoryCap] = OldEntry(HistoryCap - 1)
  /\ disk = SerializeHistory(history)

\* the line holds a character that is not white space
NonBlank(line) == \E i \in 1..Len(line) : ~IsWs(line[i])

\* the line events the reader of run r has received so far, by channel position
LinesReceived(r) ==
  {i \in 1..procs[r].pos :
     procs[r].sent[i].type \in {"Stdout", "Stderr"} /\ NonBlank(procs[r].sent[i].line)}

\* the emit calls of run r made for lines
LineEmits(r) == (1..Len(procs[r].emitted)) \ TerminalEmits(r)

\* C8: at every moment the line events emitted for a run are, one for one and in
\* channel order, the non-blank stdout and stderr lines its reader has received:
\* none missing, reordered, repeated or held back, none for a blank line; and
\* each one is delivered while the sink accepts emissions.
C8_EventsInLineOrder ==
  \A r \in Runs :
    LET em == procs[r].emitted IN
    /\ {em[k].src : k \in LineEmits(r)} = LinesReceived(r)
    /\ Cardinality(LineEmits(r)) = Cardinality(LinesReceived(r))
    /\ \A k \in 1..(Len(em) - 1) : em[k].src < em[k + 1].src
    /\ sinkUp => \A k \in 1..Len(em) : em[k].ok

\* a stderr line, then a stdout line: two events, in that order
C8_Witness ==
  \E r \in Runs :
    /\ procs[r].pos = 2
    /\ procs[r].sent[1].type = "Stderr"
    /\ procs[r].sent[2].type = "Stdout"
    /\ Len(procs[r].emitted) = 2
    /\ procs[r].emitted[1].src = 1
    /\ procs[r].emitted[2].src = 2
    /\ sinkUp

\* the digits of a natural number
RECURSIVE Decimal(_)
Decimal(n) == IF n < 10 THEN <<Digits[n + 1]>> ELSE Append(Decimal(n \div 10), Digits[(n % 10) + 1])

\* the compact JSON text of a value (objects of at most one member)
RECURSIVE JsonText(_)
RECURSIVE JsonItems(_)
JsonItems(items) ==
  IF items = <<>> THEN <<>>
  ELSE IF Len(items) = 1 THEN JsonText(items[1])
  ELSE JsonText(items[1]) \o <<",">> \o JsonItems(Tail(items))
JsonText(v) ==
  IF v.k = "null" THEN <<"n", "u", "l", "l">>
  ELSE IF v.k = "bool" THEN (IF v.n = 1 THEN <<"t", "r", "u", "e">>
                             ELSE <<"f", "a", "l", "s", "e">>)
  ELSE IF v.k = "num" THEN Decimal(v.n)
  ELSE IF v.k = "str" THEN <<"\"">> \o v.s \o <<"\"">>
  ELSE IF v.k = "arr" THEN <<"[">> \o JsonItems(v.items) \o <<"]">>
  ELSE IF v.mem = {} THEN <<"{", "}">>
  ELSE LET m == CHOOSE m \in v.mem : TRUE IN
       <<"{", "\"">> \o m.key \o <<"\"", ":">> \o JsonText(m.val) \o <<"}">>

\* the line without its white space
Compact(line) == SelectSeq(line, LAMBDA c : ~IsWs(c))

\* the JSON values the lines of StreamLines can denote
JsonValues ==
  {JNum(5), JNum(7), JStr(<<"x">>), JStr(<<"t">>), JNull, JBool(TRUE),
   JObj({}), JObj({[key |-> <<"t">>, val |-> JNum(5)]}),
   JObj({[key |-> <<"t">>, val |-> JNum(7)]}), JArr(<<>>), JArr(<<JNum(5)>>)}

\* the line is the JSON text of v
Denotes(line, v) == JsonText(v) = Compact(line)

\* the line from its first to its last character that is not white space
Inner(line) ==
  LET ix == {i \in 1..Len(line) : ~IsWs(line[i])} IN
  SubSeq(line, CHOOSE i \in ix : \A j \in ix : i <= j,
               CHOOSE i \in ix : \A j \in ix : i >= j)

\* C9: a non-blank stdout line that is JSON text is emitted as the value it
\* denotes; one that is not is emitted as the string of its characters (without
\* the surrounding white space); a stderr line always as that string.
C9_PayloadByStream ==
  \A r \in Runs : \A k \in LineEmits(r) :
    LET e == procs[r].emitted[k]
        ev == procs[r].sent[e.src]
        text == JStr(Inner(ev.line)) IN
    IF ev.type = "Stdout" /\ \E v \in JsonValues : Denotes(ev.line, v)
    THEN Denotes(ev.line, e.payload) /\ e.payload \in JsonValues
    ELSE e.payload = text

\* JSON text on stderr went out as a string, the same text on stdout as a value,
\* and cut-off JSON on stdout as a string
C9_Witness ==
  \E r \in Runs :
    /\ Len(procs[r].emitted) = 2
    /\ procs[r].sent[1] = Ev("Stderr", <<"{", "\"", "t", "\"", ":", "5", "}">>)
    /\ procs[r].emitted[1].payload.k = "str"
    /\ procs[r].sent[2].type = "Stdout"
    /\ procs[r].emitted[2].payload = JObj({[key |-> <<"t">>, val |-> JNum(5)]})

\* thread t's record has just been written to history.json (main.rs:247 succeeded)
RecordWritten(t) == th[t].pc = "ph_write" /\ th'[t].pc = "sr_args"

Min(a, b) == IF a < b THEN a ELSE b

\* new is old with k >= 1 newer entries in front, cut at the cap
Extends(old, new) ==
  \E k \in 1..Len(new) :
    SubSeq(new, k + 1, Len(new)) = SubSeq(old, 1, Min(Len(old), HistoryCap - k))

\* C11: every successful record leaves the entries that history.json held in the
\* file, behind the newer entries and in the same order, except those pushed
\* past the cap of 100; also in a process started over an existing history.json,
\* whether or not list_history was called before its first record.
C11_FileAppendOnly ==
  [][\A t \in Threads :
       RecordWritten(t) =>
         Extends(load_history(disk).list, load_history(disk').list)]_vars

\* the step is the return of a list_history call made by thread t
ListReturns(t) == th[t].pc = "lh_lock" /\ th'[t].pc = "idle"

\* C12: a list_history call after the first returns the cached list, which only
\* the first load and the records of this process have made, and leaves it as it
\* is, whatever history.json holds by then; no call returns an error.
C12_LaterCallsReturnCache ==
  [][\A t \in Threads :
       ListReturns(t) =>
         /\ lastRet'.op = "list_history" /\ lastRet'.err = ""
         /\ listed => lastRet'.list = history /\ history' = history]_vars

\* the output directory run r was started with
OutputDirOf(r) == procs[r].args[5].path.dir

\* C13: two different runs never share an output directory, also when they are
\* started in quick succession (start_run, cancel_run, start_run).
C13_OutputDirsDistinct ==
  \A r1 \in Runs : \A r2 \in Runs : r1 # r2 => OutputDirOf(r1) # OutputDirOf(r2)

\* the step is thread t's spawn of the engine process (main.rs:107-108)
Spawns(t) == th[t].pc = "sr_spawn" /\ Len(procs') = Len(procs) + 1

\* the process spawned by the step
Spawned == procs'[Len(procs')]

\* the argument vectors as the claim lists them
ClaimedFolderArgs(dir, target) ==
  <<ArgS("folder"), ArgS("--engine-json"), ArgS("--output-dir"), ArgP(DirPath(dir)),
    ArgS("--"), ArgS("--root"), ArgS(target)>>
ClaimedUrlArgs(dir, config_path) ==
  <<ArgS("audit"), ArgS("--engine-json"), ArgS("--output-dir"), ArgP(DirPath(dir)),
    ArgS("--"), ArgS("--config"), ArgP(config_path)>>

\* the config file synthesized in directory dir for base_url is on disk
ConfigWritten(dir, base_url) ==
  \E f \in configs :
    /\ f.path = [dir |-> dir, file |-> "apex.config.json"]
    /\ f.content.baseUrl = base_url

\* C14 as claimed: the argument vector handed to the spawned process is exactly
\* ["folder","--engine-json","--output-dir",<dir>,"--","--root",<target>] in folder
\* mode and ["audit","--engine-json","--output-dir",<dir>,"--","--config",
\* <configPath>] in url mode.
C14_ArgsAsClaimed ==
  [][\A t \in Threads :
       Spawns(t) =>
         Spawned.args =
           IF th[t].mode = "folder"
           THEN ClaimedFolderArgs(th[t].out, th[t].value)
           ELSE ClaimedUrlArgs(th[t].out, [dir |-> th[t].out, file |-> "apex.config.json"])]_vars

\* C14 as amended: the argument vector handed to the spawned process is "run"
\* followed by exactly the vector the claim lists for the mode, where <configPath>
\* is the config file synthesized (already on disk) before the spawn.
C14_ArgsWithRun ==
  [][\A t \in Threads :
       Spawns(t) =>
         IF th[t].mode = "folder"
         THEN Spawned.args = <<ArgS("run")>> \o ClaimedFolderArgs(th[t].out, th[t].value)
         ELSE /\ Spawned.args =
                   <<ArgS("run")>> \o
                     ClaimedUrlArgs(th[t].out, [dir |-> th[t].out, file |-> "apex.config.json"])
              /\ ConfigWritten(th[t].out, th[t].value)]_vars

\* a folder run and a url run have been spawned
C14_Witness ==
  \E r1 \in Runs : \E r2 \in Runs :
    /\ procs[r1].args[2] = ArgS("folder") /\ Len(procs[r1].args) = 8
    /\ procs[r2].args[2] = ArgS("audit") /\ Len(procs[r2].args) = 8
    /\ configs # {}

\* C15: for a successful start_run the directory returned as outputDir, the
\* outputDir of the history entry recorded for the run (in memory and in
\* history.json), the value after --output-dir in the arguments and, in url mode,
\* the directory holding the written apex.config.json are one path; the config
\* file is on disk before the spawn.
C15_OnePathPerRun ==
  [][\A t \in Threads :
       Spawns(t) =>
         LET out == lastRet'.out IN
         /\ lastRet'.op = "start_run" /\ lastRet'.err = "" /\ lastRet'.t = t
         /\ lastRecorded.output_dir = out
         /\ history[1] = lastRecorded
         /\ load_history(disk).list # <<>>
         /\ load_history(disk).list[1].output_dir = out
         /\ Spawned.args[4] = ArgS("--output-dir")
         /\ Spawned.args[5] = ArgP([dir |-> out, file |-> ""])
         /\ th[t].mode = "url" =>
              /\ ConfigWritten(out, th[t].value)
              /\ Spawned.args[7] = ArgS("--config")
              /\ Spawned.args[8].path.dir = out]_vars

\* a url run was started after another run, at a later clock reading, and
\* returned its own directory
C15_Witness ==
  /\ Len(procs) = 2
  /\ lastRet.op = "start_run" /\ lastRet.err = ""
  /\ procs[2].args[2] = ArgS("audit")
  /\ lastRet.out # procs[1].args[5].path.dir
  /\ ConfigWritten(lastRet.out, "T")

\* the step is the failure of thread t's history write (main.rs:243, 247)
PersistFails(t) == th[t].pc = "ph_write" /\ lastRet'.err # ""

\* C19: when start_run spawns the engine, the history entry of that run is
\* already in the list and in history.json; a start_run whose history write
\* fails returns that error and spawns nothing: the request is over, no process
\* is added and the slot stays empty.
C19_RecordedBeforeSpawn ==
  [][\A t \in Threads :
       /\ Spawns(t) =>
            /\ lastRecorded # NoEntry
            /\ lastRecorded.mode = th[t].mode /\ lastRecorded.target = th[t].value
            /\ lastRecorded.output_dir = th[t].out
            /\ history[1] = lastRecorded
            /\ load_history(disk).ok /\ load_history(disk).list # <<>>
            /\ load_history(disk).list[1] = lastRecorded
       /\ PersistFails(t) =>
            /\ lastRet' = Ret(t, "start_run", lastRet'.err, NoDir, <<>>)
            /\ th'[t].pc = "idle"
            /\ procs' = procs
            /\ child' = None /\ child = None
            /\ childLock' = None]_vars

\* one run was recorded and spawned; the history write of the next one failed
\* and left one process
C19_Witness ==
  /\ Len(procs) = 1
  /\ Len(history) = 2
  /\ lastRet.op = "start_run"
  /\ lastRet.err \in {"write_err", "mkdir_err"}
  /\ child = None

\* the launcher has resolved the manifest, or failed to
Resolved == launcher.pc \in {"resolved", "entry", "done", "failed"}

\* the candidates in the order of the claim: cache manifest, manifest next to the
\* launcher executable, manifest one directory above it
Candidates ==
  <<resolve_cached_engine_manifest_path>>
    \o (IF launcher.exe.ok THEN <<LocalManifest(launcher.exe)>> ELSE <<>>)
    \o (IF HasParentDir(launcher.exe) THEN <<ParentManifest(launcher.exe)>> ELSE <<>>)

\* the file at path p
FileAt(p) == IF p \in DOMAIN launcher.fs THEN launcher.fs[p] ELSE MissingFile
Present(p) == FileAt(p).kind # "missing"

\* C16: resolve() takes its result from the first candidate that exists, in the
\* order cache, next to the launcher, one directory above; the result is marked
\* from-cache exactly when it is the cache candidate; when the cache manifest
\* exists the result is decided by that file alone.
C16_FirstExistingCandidate ==
  Resolved =>
    LET info == launcher.info
        cached == Candidates[1] IN
    /\ info.ok =>
         \E i \in 1..Len(Candidates) :
           /\ info.manifest_path = Candidates[i]
           /\ Present(Candidates[i])
           /\ \A j \in 1..(i - 1) : ~Present(Candidates[j])
           /\ info.from_cache <=> i = 1
           /\ info.manifest.engine_version = FileAt(Candidates[i]).doc.engineVersion
           /\ info.manifest.entry = FileAt(Candidates[i]).doc.entry
           /\ info.manifest.schema_version = FileAt(Candidates[i]).doc.schemaVersion
    /\ Present(cached) =>
         IF FileAt(cached).kind = "doc" /\ FileAt(cached).doc # DocSnake
         THEN info.ok /\ info.manifest_path = cached /\ info.from_cache
         ELSE ~info.ok /\ info.err \in {"io", "parse"}

\* the cache manifest and a different manifest next to the launcher both exist;
\* the result is the cache manifest
C16_Witness ==
  /\ launcher.pc = "resolved"
  /\ FileAt(Candidates[1]) = JsonFile(DocA)
  /\ Len(Candidates) = 3
  /\ FileAt(Candidates[2]) = JsonFile(DocB)
  /\ FileAt(Candidates[3]) = CorruptFile
  /\ launcher.info.from_cache
  /\ launcher.info.manifest.engine_version = "1.2.3"

\* the entry step of the launcher has been taken
EntryResolved ==
  launcher.pc \in {"entry", "done"} \/ (launcher.pc = "failed" /\ launcher.info.ok)

\* <manifest directory>/<entry>
EntryPath ==
  Join(SubSeq(launcher.info.manifest_path, 1, Len(launcher.info.manifest_path) - 1),
       launcher.info.manifest.entry)

\* C17: resolve_entry on a resolved manifest fails with unsupported-schema-version
\* when schemaVersion # 1, whether or not the entry file exists; with
\* schemaVersion = 1 it returns <manifest directory>/<entry> when that file
\* exists and fails with entry-not-found when it does not.
C17_EntryBySchemaThenFile ==
  EntryResolved =>
    LET entry == launcher.entry IN
    IF launcher.info.manifest.schema_version # 1
    THEN ~entry.ok /\ entry.err = "unsupported schemaVersion"
    ELSE IF Exists(launcher.fs, EntryPath)
    THEN entry.ok /\ entry.path = EntryPath
    ELSE ~entry.ok /\ entry.err = "entry not found"

\* a manifest of schema 2 whose entry file is missing: unsupported schema version
C17_Witness ==
  /\ launcher.pc = "failed"
  /\ launcher.info.ok
  /\ launcher.info.manifest.schema_version = 2
  /\ ~Exists(launcher.fs, EntryPath)
  /\ launcher.entry.err = "unsupported schemaVersion"

\* the file system with latest/ holding file f instead
WithLatest(f) ==
  LET fs == launcher.fs
      at == IF f = EmptyDir THEN LatestDir ELSE LatestManifest IN
  [q \in ((DOMAIN fs) \ {LatestDir, LatestManifest}) \cup {at} |->
     IF q = at THEN f ELSE fs[q]]

\* C18: plan(info) reports cache_dir/engine/<engineVersion> as the selected
\* directory; selection_state is "latest" exactly when latest/engine.manifest.json
\* is readable and names the engineVersion of the active manifest, "pinned"
\* otherwise; whatever latest/ holds, the manifest resolved and the entry path
\* are the same.
C18_PinnedDirSelected ==
  launcher.pc = "done" =>
    LET info == launcher.info
        layout == launcher.layout
        latest == FileAt(LatestManifest) IN
    /\ layout.selected_dir = resolve_cache_dir \o <<"engine", info.manifest.engine_version>>
    /\ layout.selection_state =
         IF latest.kind = "doc" /\ latest.doc # DocSnake
              /\ latest.doc.engineVersion = info.manifest.engine_version
         THEN "latest" ELSE "pinned"
    /\ \A f \in LatestFiles :
         /\ resolve_engine_manifest_info(WithLatest(f), launcher.exe) = info
         /\ resolve_engine_entry_from_info(WithLatest(f), info) = launcher.entry

\* latest/ names the version of the active manifest: reported as "latest", while
\* the selected directory is the version-pinned one
C18_Witness ==
  /\ launcher.pc = "done"
  /\ launcher.layout.selection_state = "latest"
  /\ launcher.layout.latest_matches_manifest
  /\ launcher.layout.selected_dir # launcher.layout.latest_dir
  /\ launcher.layout.selected_dir = <<"/", "cache", "signaler", "engine", "2.0.0">>
  /\ ~launcher.info.from_cache

\* the file exists and cannot be read, or is not a manifest
Broken(p) == FileAt(p) \in {UnreadableFile, CorruptFile, JsonFile(DocSnake)}

\* C20: a candidate that exists and cannot be read or parsed makes resolve() fail
\* with that error, whatever the candidates after it hold; only a candidate
\* that does not exist is passed over; when no candidate exists (the launcher's
\* own path being known) resolve() fails with manifest-not-found.
C20_BrokenCandidateIsFatal ==
  Resolved =>
    LET info == launcher.info
        present == {i \in 1..Len(Candidates) : Present(Candidates[i])} IN
    /\ \A i \in present :
         (Broken(Candidates[i]) /\ \A j \in 1..(i - 1) : j \notin present) =>
           /\ ~info.ok
           /\ info.err = IF FileAt(Candidates[i]) = UnreadableFile THEN "io" ELSE "parse"
    /\ info.ok =>
         \A j \in 1..Len(Candidates) :
           (Candidates[j] # info.manifest_path /\ Present(Candidates[j])) =>
             \E i \in 1..(j - 1) : Candidates[i] = info.manifest_path
    /\ (present = {} /\ launcher.exe.ok) => ~info.ok /\ info.err = "manifest not found"

\* the cache manifest is not JSON and a good manifest is next to the launcher:
\* resolve() fails with the parse error
C20_Witness ==
  /\ launcher.pc = "failed"
  /\ ~launcher.info.ok
  /\ launcher.info.err = "parse"
  /\ FileAt(Candidates[1]) = CorruptFile
  /\ Len(Candidates) >= 2
  /\ FileAt(Candidates[2]) = JsonFile(DocA)

\* thread t is at a step that does I/O: the write of history.json (main.rs:243-247),
\* the write of the url-mode config (main.rs:97), the sidecar lookup and spawn
\* (main.rs:106-107), the kill of the engine process (main.rs:154)
AtIo(t) ==
  \/ th[t].pc = "ph_write"
  \/ th[t].pc = "sr_args" /\ th[t].mode = "url"
  \/ th[t].pc = "sr_spawn"
  \/ th[t].pc = "cr_kill" /\ child # None

\* C21: no task holds the child-slot lock or the history lock while history.json
\* is written, while the url-mode config is written, or while the engine process
\* is spawned or killed.
C21_NoLockAcrossIo ==
  \A t \in Threads : AtIo(t) => childLock # t /\ histLock # t

\* C22: an engine process that is alive has its handle in the slot: the reader
\* task of an earlier run never empties the slot under a later run, and after a
\* successful cancel_run no engine process is running.
C22_AliveIsInSlot ==
  /\ \A r \in Runs : procs[r].alive => child = r
  /\ (lastRet.op = "cancel_run" /\ lastRet.err = "") => Alive = {}

\* the steps of thread t and of reader r that need a lock or hold one
LockStep(t) == ThreadRuns(t)
ReaderLockStep(r) == ReaderClear(r)

\* thread t, inside an operation, can take its next step, or the lock it waits
\* for is held by a thread that can
CanProceed(t) ==
  \/ ENABLED LockStep(t)
  \/ \E u \in Threads \ {t} :
       (childLock = u \/ histLock = u) /\ ENABLED LockStep(u)

\* C23: no interleaving of start_run, cancel_run, list_history and reader tasks
\* deadlocks. The history lock is only taken by a task that holds no lock or the
\* child-slot lock, and its holder waits for no lock; every operation that has
\* returned (also with an error) holds no lock; every task inside an operation
\* or at its clean-up can step, or waits for a lock whose holder can.
C23_NoDeadlock ==
  /\ \A t \in Threads : th[t].pc = "idle" => childLock # t /\ histLock # t
  /\ \A t \in Threads : histLock = t => th[t].pc = "ph_write" /\ childLock = t
  /\ \A t \in Threads : childLock = t => th[t].pc \in {"sr_persist", "ph_write", "sr_args", "sr_spawn", "cr_kill"}
  /\ childLock \in Threads \cup {None} /\ histLock \in Threads \cup {None}
  /\ \A t \in Threads : th[t].pc # "idle" => CanProceed(t)
  /\ \A r \in Runs :
       procs[r].rd = "clear" =>
         \/ ENABLED ReaderLockStep(r)
         \/ \E u \in Threads : childLock = u /\ ENABLED LockStep(u)

\* one start_run holds both locks at its write, a list_history waits for the
\* history lock and a reader task waits for the slot lock
C23_Witness ==
  \E t \in Threads : \E u \in Threads \ {t} : \E r \in Runs :
    /\ th[t].pc = "ph_write" /\ childLock = t /\ histLock = t
    /\ th[u].pc = "lh_lock"
    /\ procs[r].rd = "clear"

\* the step is a failing return of thread t's start_run after the slot check:
\* history persist, config write, sidecar lookup or spawn failed
FailsAfterCheck(t) ==
  /\ th[t].pc \in {"ph_write", "sr_args", "sr_spawn"}
  /\ th'[t].pc = "idle"
  /\ lastRet'.err # ""

\* C24: a start_run that fails after passing the slot check leaves the slot empty
\* and no engine process running, so the next start_run passes the slot check.
C24_FailedStartLeavesNothing ==
  [][\A t \in Threads :
       FailsAfterCheck(t) =>
         /\ child' = None
         /\ ~SlotOccupied(child')
         /\ \A r \in 1..Len(procs') : ~procs'[r].alive]_vars

\* C24, of the request alone: the failing start_run leaves the slot empty and
\* unlocked and has added no process.
C24_FailedStartSpawnsNothing ==
  [][\A t \in Threads :
       FailsAfterCheck(t) =>
         /\ lastRet'.op = "start_run"
         /\ child' = None /\ childLock' = None
         /\ procs' = procs]_vars

====
